---- MODULE Spec2Model ----
(***************************************************************************)
(* Model of the ECDSA core, the strict DER codec and the stealth-nonce     *)
(* protocol of src/secp256k1/src/ecdsa_impl.h.                             *)
(*                                                                         *)
(* Scale.  The code works on 256-bit scalars and field elements held in    *)
(* 32-byte big-endian buffers.  The model keeps bytes as they are (0..255) *)
(* and keeps every relation between the sizes that the code relies on,     *)
(* but uses ScalarBytes = 2 byte buffers and the curve y^2 = x^3 + 7 over  *)
(* the field of P = 33343 elements, whose group has the prime order        *)
(* N = 33151:                                                              *)
(*      2^(8*ScalarBytes - 1) < N < P < 2^(8*ScalarBytes)  and  2*N > P,   *)
(* as for secp256k1, so that a scalar may have its top bit set, a buffer   *)
(* may hold a value >= N, one subtraction of N reduces any buffer value,   *)
(* and an x coordinate may lie in [N, P).                                  *)
(***************************************************************************)
EXTENDS Integers, Sequences, FiniteSets, TLC

(***************************************************************************)
(* Program constants (scaled)                                              *)
(***************************************************************************)
\* width in bytes of a scalar / field element buffer (32 in the code)
ScalarBytes == 2
\* the group order n, as a field element
secp256k1_ecdsa_const_order_as_fe == 33151
\* the difference p - n between the field prime and the group order
secp256k1_ecdsa_const_p_minus_order == 192
N == secp256k1_ecdsa_const_order_as_fe
P == N + secp256k1_ecdsa_const_p_minus_order
\* sizeof(size_t)
SizeofSizeT == 8

Byte == 0..255
\* F applied to the value of v, with v evaluated first (and once).
Eval(v, F(_)) == CHOOSE r \in {F(x) : x \in {v}} : TRUE
Pow256(k) == IF k = 0 THEN 1 ELSE IF k = 1 THEN 256 ELSE 65536
\* 2^k for the k used in splitting an exponent of at most 16 bits
Pow2(k) == IF k = 1 THEN 2 ELSE IF k = 2 THEN 4 ELSE IF k = 4 THEN 16 ELSE 256
\* the number of bits exponents and scalars are taken to have
ExpBits == 8 * ScalarBytes
BufLimit == Pow256(ScalarBytes)

(***************************************************************************)
(* Arithmetic substrate: field (mod p)                                     *)
(***************************************************************************)
FeMul(a, b) == (a * b) % P
FeSqr(a) == (a * a) % P
FeSub(a, b) == (a + P - b) % P
secp256k1_fe_add(a, b) == (a + b) % P
\* a^(2^k)
RECURSIVE FeSqrN(_, _)
FeSqrN(k, a) ==
    IF k = 1 THEN FeSqr(a)
    ELSE Eval(FeSqrN(k \div 2, a), LAMBDA h : FeSqrN(k \div 2, h))
\* a^e for e of nbits bits (a power of two): the high half of the exponent first
RECURSIVE FePow(_, _, _)
FePow(a, e, nbits) ==
    IF nbits = 1 THEN (IF e = 1 THEN a ELSE 1)
    ELSE LET half == nbits \div 2
         IN Eval(FePow(a, e \div Pow2(half), half),
                 LAMBDA hi : Eval(FeSqrN(half, hi),
                 LAMBDA sq : Eval(FePow(a, e % Pow2(half), half),
                 LAMBDA lo : FeMul(sq, lo))))
FeInv(a) == FePow(a, P - 2, ExpBits)
secp256k1_fe_is_odd(a) == a % 2
\* -1, 0, 1 as a < b, a = b, a > b
secp256k1_fe_cmp_var(a, b) == IF a < b THEN 0 - 1 ELSE IF a = b THEN 0 ELSE 1

(***************************************************************************)
(* Big-endian buffers of ScalarBytes bytes                                 *)
(***************************************************************************)
RECURSIVE BeValue(_)
BeValue(bytes) ==
    IF Len(bytes) = 0 THEN 0
    ELSE BeValue(SubSeq(bytes, 1, Len(bytes) - 1)) * 256 + bytes[Len(bytes)]
BeBytes(v) ==
    [i \in 1..ScalarBytes |-> (v \div Pow256(ScalarBytes - i)) % 256]

(***************************************************************************)
(* Arithmetic substrate: scalars (mod n)                                   *)
(***************************************************************************)
\* the scalar of a buffer and whether the buffer's value was >= n
secp256k1_scalar_set_b32(b32) ==
    LET v == BeValue(b32)
        over == IF v >= N THEN 1 ELSE 0
    IN [r |-> v - over * N, overflow |-> over]
secp256k1_scalar_get_b32(a) == BeBytes(a)
secp256k1_scalar_mul(a, b) == (a * b) % N
secp256k1_scalar_add(a, b) == (a + b) % N
\* a^(2^k)
RECURSIVE ScalarSqrN(_, _)
ScalarSqrN(k, a) ==
    IF k = 1 THEN (a * a) % N
    ELSE Eval(ScalarSqrN(k \div 2, a), LAMBDA h : ScalarSqrN(k \div 2, h))
RECURSIVE ScalarPow(_, _, _)
ScalarPow(a, e, nbits) ==
    IF nbits = 1 THEN (IF e = 1 THEN a ELSE 1)
    ELSE LET half == nbits \div 2
         IN Eval(ScalarPow(a, e \div Pow2(half), half),
                 LAMBDA hi : Eval(ScalarSqrN(half, hi),
                 LAMBDA sq : Eval(ScalarPow(a, e % Pow2(half), half),
                 LAMBDA lo : (sq * lo) % N)))
\* the inverse of 0 is 0
secp256k1_scalar_inverse(a) == ScalarPow(a, N - 2, ExpBits)
secp256k1_scalar_is_zero(a) == a = 0
secp256k1_scalar_is_high(a) == IF a > (N - 1) \div 2 THEN 1 ELSE 0
secp256k1_scalar_cond_negate(a, flag) == IF flag = 1 THEN (N - a) % N ELSE a
secp256k1_scalar_eq(a, b) == IF a = b THEN 1 ELSE 0
secp256k1_scalar_clear == 0

\* field element <-> buffer
secp256k1_fe_get_b32(a) == BeBytes(a)
secp256k1_fe_set_b32_limit(b32) == BeValue(b32)

(***************************************************************************)
(* Arithmetic substrate: group elements, affine (ge) and Jacobian (gej)    *)
(***************************************************************************)
GeInfinity == [x |-> 0, y |-> 0, infinity |-> 1]
GejInfinity == [x |-> 0, y |-> 0, z |-> 0, infinity |-> 1]
\* secp256k1_ge_clear / secp256k1_gej_clear: every field overwritten with zero
secp256k1_ge_clear == [x |-> 0, y |-> 0, infinity |-> 0]
secp256k1_gej_clear == [x |-> 0, y |-> 0, z |-> 0, infinity |-> 0]

secp256k1_gej_set_ge(a) ==
    IF a.infinity = 1 THEN GejInfinity
    ELSE [x |-> a.x, y |-> a.y, z |-> 1, infinity |-> 0]

secp256k1_ge_set_gej(a) ==
    IF a.infinity = 1 THEN GeInfinity
    ELSE LET zi == FeInv(a.z)
             zi2 == FeSqr(zi)
             zi3 == FeMul(zi2, zi)
         IN [x |-> FeMul(a.x, zi2), y |-> FeMul(a.y, zi3), infinity |-> 0]

secp256k1_gej_is_infinity(a) == a.infinity = 1

GejDouble(a) ==
    IF a.infinity = 1 \/ a.y = 0 THEN GejInfinity
    ELSE LET yy == FeSqr(a.y)
             s == FeMul(4, FeMul(a.x, yy))
             m == FeMul(3, FeSqr(a.x))
             x3 == FeSub(FeSqr(m), FeMul(2, s))
             y3 == FeSub(FeMul(m, FeSub(s, x3)), FeMul(8, FeSqr(yy)))
             z3 == FeMul(2, FeMul(a.y, a.z))
         IN [x |-> x3, y |-> y3, z |-> z3, infinity |-> 0]

GejAdd(a, b) ==
    IF a.infinity = 1 THEN b
    ELSE IF b.infinity = 1 THEN a
    ELSE LET z1z1 == FeSqr(a.z)
             z2z2 == FeSqr(b.z)
             u1 == FeMul(a.x, z2z2)
             u2 == FeMul(b.x, z1z1)
             s1 == FeMul(a.y, FeMul(z2z2, b.z))
             s2 == FeMul(b.y, FeMul(z1z1, a.z))
             h == FeSub(u2, u1)
             r == FeSub(s2, s1)
         IN IF h = 0
            THEN IF r = 0 THEN GejDouble(a) ELSE GejInfinity
            ELSE LET hh == FeSqr(h)
                     hhh == FeMul(hh, h)
                     v == FeMul(u1, hh)
                     x3 == FeSub(FeSub(FeSqr(r), hhh), FeMul(2, v))
                     y3 == FeSub(FeMul(r, FeSub(v, x3)), FeMul(s1, hhh))
                     z3 == FeMul(h, FeMul(a.z, b.z))
                 IN [x |-> x3, y |-> y3, z |-> z3, infinity |-> 0]

\* 2^k * a
RECURSIVE GejDoubleN(_, _)
GejDoubleN(k, a) ==
    IF k = 1 THEN GejDouble(a)
    ELSE Eval(GejDoubleN(k \div 2, a), LAMBDA h : GejDoubleN(k \div 2, h))
\* k * a for k of nbits bits (a power of two): the high half of k first
RECURSIVE GejMulBits(_, _, _)
GejMulBits(k, a, nbits) ==
    IF nbits = 1 THEN (IF k = 1 THEN a ELSE GejInfinity)
    ELSE LET half == nbits \div 2
         IN Eval(GejMulBits(k \div Pow2(half), a, half),
                 LAMBDA hi : Eval(GejDoubleN(half, hi),
                 LAMBDA d : Eval(GejMulBits(k % Pow2(half), a, half),
                 LAMBDA lo : GejAdd(d, lo))))
GejMul(k, a) == GejMulBits(k, a, ExpBits)

\* the generator of the group
GeneratorG == [x |-> 1, y |-> 15860, infinity |-> 0]
\* secp256k1_ecmult_gen: gn * G
secp256k1_ecmult_gen(gn) == GejMul(gn, secp256k1_gej_set_ge(GeneratorG))
\* secp256k1_ecmult: na * a + ng * G
secp256k1_ecmult(a, na, ng) == GejAdd(GejMul(na, a), secp256k1_ecmult_gen(ng))
\* secp256k1_gej_eq_x_var: x * a.z^2 = a.x, without an inversion
secp256k1_gej_eq_x_var(x, a) == FeMul(x, FeSqr(a.z)) = a.x

(***************************************************************************)
(* Tagged hash: SHA-256 started from the fixed midstate, absorbing the     *)
(* factor and the data digest, giving a digest of ScalarBytes bytes.       *)
(***************************************************************************)
TaggedHash(stealthFactor, dataHashPointer) ==
    BeBytes(((((BeValue(stealthFactor) * 251 + BeValue(dataHashPointer)) % BufLimit)
              * 241) + 40379) % BufLimit)

(***************************************************************************)
(* ECDSA core                                                              *)
(***************************************************************************)
\* *recid ^= high
RecidXor(recid, high) ==
    IF high = 0 THEN recid
    ELSE IF recid % 2 = 0 THEN recid + 1 ELSE recid - 1

\* SignNormalizeS without the conditional negation of s
SignNormalizeS_NoNegate(s) ==
    [sigs |-> s, high |-> secp256k1_scalar_is_high(s)]

\* high = secp256k1_scalar_is_high(sigs); secp256k1_scalar_cond_negate(sigs, high)
SignNormalizeS(s) ==
    LET high == secp256k1_scalar_is_high(s)
    IN [sigs |-> secp256k1_scalar_cond_negate(s, high), high |-> high]

\* The locals n, rp and r as the function leaves them.
SignClearLocals(n, rp, r) ==
    [n |-> secp256k1_scalar_clear, rp |-> secp256k1_gej_clear, r |-> secp256k1_ge_clear]

\* The outputs (ret, sigr, sigs, recid) and, in frame, the locals at return.
secp256k1_ecdsa_sig_sign(seckey, message, nonce) ==
    LET rp0 == secp256k1_ecmult_gen(nonce)
        r0 == secp256k1_ge_set_gej(rp0)
        b == secp256k1_fe_get_b32(r0.x)
        conv == secp256k1_scalar_set_b32(b)
        sigr == conv.r
        overflow == conv.overflow
        recid0 == overflow * 2 + secp256k1_fe_is_odd(r0.y)
        n1 == secp256k1_scalar_mul(sigr, seckey)
        n2 == secp256k1_scalar_add(n1, message)
        s0 == secp256k1_scalar_inverse(nonce)
        s1 == secp256k1_scalar_mul(s0, n2)
        cleared == SignClearLocals(n2, rp0, r0)
        norm == SignNormalizeS(s1)
        ok == (~secp256k1_scalar_is_zero(sigr)) /\ (~secp256k1_scalar_is_zero(norm.sigs))
    IN [ret |-> IF ok THEN 1 ELSE 0,
        sigr |-> sigr,
        sigs |-> norm.sigs,
        recid |-> RecidXor(recid0, norm.high),
        frame |-> [b |-> b, rp |-> cleared.rp, r |-> cleared.r, n |-> cleared.n,
                   overflow |-> overflow, high |-> norm.high]]

\* VerifyCompareX without the second comparison, of xr + n
VerifyCompareX_NoFallback(sigr, pr) ==
    LET c == secp256k1_scalar_get_b32(sigr)
        xr == secp256k1_fe_set_b32_limit(c)
    IN IF secp256k1_gej_eq_x_var(xr, pr) THEN 1 ELSE 0

\* The comparison of the claimed x coordinate with pr, without an inversion.
VerifyCompareX(sigr, pr) ==
    LET c == secp256k1_scalar_get_b32(sigr)
        xr == secp256k1_fe_set_b32_limit(c)
    IN IF secp256k1_gej_eq_x_var(xr, pr) THEN 1
       ELSE IF secp256k1_fe_cmp_var(xr, secp256k1_ecdsa_const_p_minus_order) >= 0 THEN 0
       ELSE IF secp256k1_gej_eq_x_var(
                   secp256k1_fe_add(xr, secp256k1_ecdsa_const_order_as_fe), pr)
            THEN 1 ELSE 0

\* The recomputed point pr = (message/sigs)*G + (sigr/sigs)*pubkey.
VerifyPoint(sigr, sigs, pubkey, message) ==
    LET sn == secp256k1_scalar_inverse(sigs)
        u1 == secp256k1_scalar_mul(sn, message)
        u2 == secp256k1_scalar_mul(sn, sigr)
        pubkeyj == secp256k1_gej_set_ge(pubkey)
    IN secp256k1_ecmult(pubkeyj, u2, u1)

\* secp256k1_ecdsa_sig_verify without the test for the point at infinity
secp256k1_ecdsa_sig_verify_NoInfinityTest(sigr, sigs, pubkey, message) ==
    IF secp256k1_scalar_is_zero(sigr) \/ secp256k1_scalar_is_zero(sigs) THEN 0
    ELSE VerifyCompareX(sigr, VerifyPoint(sigr, sigs, pubkey, message))

secp256k1_ecdsa_sig_verify(sigr, sigs, pubkey, message) ==
    IF secp256k1_scalar_is_zero(sigr) \/ secp256k1_scalar_is_zero(sigs) THEN 0
    ELSE LET pr == VerifyPoint(sigr, sigs, pubkey, message)
         IN IF secp256k1_gej_is_infinity(pr) THEN 0
            ELSE VerifyCompareX(sigr, pr)

(***************************************************************************)
(* Stealth nonce protocol                                                  *)
(***************************************************************************)
\* The output stealthResult and the locals at return.
secp256k1_generate_stealth_J(stealthFactor) ==
    LET conv == secp256k1_scalar_set_b32(stealthFactor)
        stealthResultScalar == conv.r
        rp == secp256k1_ecmult_gen(stealthResultScalar)
        stealthPoint == secp256k1_ge_set_gej(rp)
    IN [ret |-> 1,
        stealthResult |-> secp256k1_fe_get_b32(stealthPoint.x),
        frame |-> [rp |-> rp, stealthPoint |-> stealthPoint,
                   stealthResultScalar |-> stealthResultScalar,
                   overflow |-> conv.overflow]]

\* The outputs stealthFactor and k, and the locals at return.
secp256k1_generate_secure_k(j, dataHashPointer) ==
    LET conv == secp256k1_scalar_set_b32(j)
        jScalar == conv.r
        rp == secp256k1_ecmult_gen(jScalar)
        stealthPoint == secp256k1_ge_set_gej(rp)
        stealthFactor == secp256k1_fe_get_b32(stealthPoint.x)
        hash == TaggedHash(stealthFactor, dataHashPointer)
        hconv == secp256k1_scalar_set_b32(hash)
        hashResult == hconv.r
        secureK == secp256k1_scalar_add(jScalar, hashResult)
    IN [ret |-> 1,
        stealthFactor |-> stealthFactor,
        k |-> secp256k1_scalar_get_b32(secureK),
        frame |-> [rp |-> rp, stealthPoint |-> stealthPoint, jScalar |-> jScalar,
                   overflow |-> hconv.overflow, hash |-> hash,
                   hashResult |-> hashResult, secureK |-> secureK]]

secp256k1_ecdsa_verify_timestamped_r(dataHashPointer, stealthFactor, expectedR) ==
    LET hash == TaggedHash(stealthFactor, dataHashPointer)
        hashResult == secp256k1_scalar_set_b32(hash).r
        rp == secp256k1_ecmult_gen(hashResult)
        resultPoint == secp256k1_ge_set_gej(rp)
        bytes == secp256k1_fe_get_b32(resultPoint.x)
        visibleResult == secp256k1_scalar_set_b32(bytes).r
        stealthFactorScalar == secp256k1_scalar_set_b32(stealthFactor).r
        sigr == secp256k1_scalar_add(stealthFactorScalar, visibleResult)
    IN secp256k1_scalar_eq(sigr, expectedR)

(***************************************************************************)
(* DER codec.  A byte string is a sequence of bytes; a pointer into it is  *)
(* its offset from the start (sig = 0, sigend = size), so that the byte a  *)
(* pointer p refers to is ByteAt(sig, p).                                  *)
(***************************************************************************)
ByteAt(sig, p) == sig[p + 1]

\* A length of more than LenCap is held as LenCap: the code compares a decoded
\* length only with the number of bytes left and with 128, both below LenCap.
LenCap == 1000000
RECURSIVE ReadLenBytes(_, _, _, _)
\* while (lenleft > 0) { *len = (*len << 8) | **sigp; (*sigp)++; lenleft--; }
ReadLenBytes(sig, sigp, lenleft, len) ==
    IF lenleft = 0 THEN len
    ELSE LET next == len * 256 + ByteAt(sig, sigp)
         IN ReadLenBytes(sig, sigp + 1, lenleft - 1,
                         IF next > LenCap THEN LenCap ELSE next)

\* [ret, len, sigp]: the return value, *len and *sigp after the call
secp256k1_der_read_len(sig, sigp, sigend) ==
    IF sigp >= sigend THEN [ret |-> 0, len |-> 0, sigp |-> sigp]
    ELSE LET b1 == ByteAt(sig, sigp)
             p1 == sigp + 1
         IN IF b1 = 255 THEN [ret |-> 0, len |-> 0, sigp |-> p1]
            ELSE IF b1 < 128 THEN [ret |-> 1, len |-> b1, sigp |-> p1]
            ELSE IF b1 = 128 THEN [ret |-> 0, len |-> 0, sigp |-> p1]
            ELSE LET lenleft == b1 - 128
                 IN IF lenleft > sigend - p1 THEN [ret |-> 0, len |-> 0, sigp |-> p1]
                    ELSE IF ByteAt(sig, p1) = 0 THEN [ret |-> 0, len |-> 0, sigp |-> p1]
                    ELSE IF lenleft > SizeofSizeT THEN [ret |-> 0, len |-> 0, sigp |-> p1]
                    ELSE LET len == ReadLenBytes(sig, p1, lenleft, 0)
                             p2 == p1 + lenleft
                         IN IF len > sigend - p2 THEN [ret |-> 0, len |-> len, sigp |-> p2]
                            ELSE IF len < 128 THEN [ret |-> 0, len |-> len, sigp |-> p2]
                            ELSE [ret |-> 1, len |-> len, sigp |-> p2]

\* IntegerScalar that keeps the reduced value when the content is n or more
IntegerScalar_KeepReduced(sig, sigp, rlen, negative) ==
    IF negative \/ rlen > ScalarBytes THEN 0
    ELSE secp256k1_scalar_set_b32(
             [i \in 1..ScalarBytes |->
                 IF i > ScalarBytes - rlen
                 THEN ByteAt(sig, sigp + (i - (ScalarBytes - rlen) - 1))
                 ELSE 0]).r

\* The scalar an INTEGER's content gives: ra is the content right-aligned in a
\* zeroed buffer; a negative, too long or too large content gives 0.
IntegerScalar(sig, sigp, rlen, negative) ==
    IF negative \/ rlen > ScalarBytes THEN 0
    ELSE LET ra == [i \in 1..ScalarBytes |->
                       IF i > ScalarBytes - rlen
                       THEN ByteAt(sig, sigp + (i - (ScalarBytes - rlen) - 1))
                       ELSE 0]
             conv == secp256k1_scalar_set_b32(ra)
         IN IF conv.overflow = 1 THEN 0 ELSE conv.r

\* secp256k1_der_parse_integer that takes any leading 0x00 for excessive padding
secp256k1_der_parse_integer_NoZero(sig, sigp, sigend) ==
    LET Fail(p) == [ret |-> 0, written |-> FALSE, r |-> 0, sigp |-> p]
    IN IF sigp = sigend \/ ByteAt(sig, sigp) # 2 THEN Fail(sigp)
       ELSE LET rl == secp256k1_der_read_len(sig, sigp + 1, sigend)
                p == rl.sigp
                rlen == rl.len
            IN IF rl.ret = 0 THEN Fail(p)
               ELSE IF rlen = 0 \/ rlen > sigend - p THEN Fail(p)
               ELSE IF ByteAt(sig, p) = 0 /\ (rlen = 1 \/ ByteAt(sig, p + 1) < 128)
                    THEN Fail(p)
               ELSE IF ByteAt(sig, p) = 255 /\ rlen > 1 /\ ByteAt(sig, p + 1) >= 128
                    THEN Fail(p)
               ELSE LET negative == ByteAt(sig, p) >= 128
                        skip == rlen > 0 /\ ByteAt(sig, p) = 0
                        rlen2 == IF skip THEN rlen - 1 ELSE rlen
                        p2 == IF skip THEN p + 1 ELSE p
                    IN [ret |-> 1, written |-> TRUE,
                        r |-> IntegerScalar(sig, p2, rlen2, negative),
                        sigp |-> p2 + rlen2]

\* secp256k1_der_parse_integer without the test for excessive 0x00 padding
secp256k1_der_parse_integer_AllowPadding(sig, sigp, sigend) ==
    LET Fail(p) == [ret |-> 0, written |-> FALSE, r |-> 0, sigp |-> p]
    IN IF sigp = sigend \/ ByteAt(sig, sigp) # 2 THEN Fail(sigp)
       ELSE LET rl == secp256k1_der_read_len(sig, sigp + 1, sigend)
                p == rl.sigp
                rlen == rl.len
            IN IF rl.ret = 0 THEN Fail(p)
               ELSE IF rlen = 0 \/ rlen > sigend - p THEN Fail(p)
               ELSE IF ByteAt(sig, p) = 255 /\ rlen > 1 /\ ByteAt(sig, p + 1) >= 128
                    THEN Fail(p)
               ELSE LET negative == ByteAt(sig, p) >= 128
                        skip == rlen > 0 /\ ByteAt(sig, p) = 0
                        rlen2 == IF skip THEN rlen - 1 ELSE rlen
                        p2 == IF skip THEN p + 1 ELSE p
                    IN [ret |-> 1, written |-> TRUE,
                        r |-> IntegerScalar(sig, p2, rlen2, negative),
                        sigp |-> p2 + rlen2]

\* [ret, written, r, sigp]: the return value, whether *r was written and with
\* what, and *sig after the call
secp256k1_der_parse_integer(sig, sigp, sigend) ==
    LET Fail(p) == [ret |-> 0, written |-> FALSE, r |-> 0, sigp |-> p]
    IN IF sigp = sigend \/ ByteAt(sig, sigp) # 2 THEN Fail(sigp)
       ELSE LET rl == secp256k1_der_read_len(sig, sigp + 1, sigend)
                p == rl.sigp
                rlen == rl.len
            IN IF rl.ret = 0 THEN Fail(p)
               ELSE IF rlen = 0 \/ rlen > sigend - p THEN Fail(p)
               ELSE IF ByteAt(sig, p) = 0 /\ rlen > 1 /\ ByteAt(sig, p + 1) < 128
                    THEN Fail(p)
               ELSE IF ByteAt(sig, p) = 255 /\ rlen > 1 /\ ByteAt(sig, p + 1) >= 128
                    THEN Fail(p)
               ELSE LET negative == ByteAt(sig, p) >= 128
                        skip == rlen > 0 /\ ByteAt(sig, p) = 0
                        rlen2 == IF skip THEN rlen - 1 ELSE rlen
                        p2 == IF skip THEN p + 1 ELSE p
                    IN [ret |-> 1, written |-> TRUE,
                        r |-> IntegerScalar(sig, p2, rlen2, negative),
                        sigp |-> p2 + rlen2]

\* [ret, rr, rs]: the return value and the output scalars after the call, which
\* held rr0 and rs0 before it
secp256k1_ecdsa_sig_parse(rr0, rs0, sig, size) ==
    LET sigend == size
    IN IF 0 = sigend \/ ByteAt(sig, 0) # 48 THEN [ret |-> 0, rr |-> rr0, rs |-> rs0]
       ELSE LET rl == secp256k1_der_read_len(sig, 1, sigend)
            IN IF rl.ret = 0 THEN [ret |-> 0, rr |-> rr0, rs |-> rs0]
               ELSE IF rl.len # sigend - rl.sigp THEN [ret |-> 0, rr |-> rr0, rs |-> rs0]
               ELSE LET i1 == secp256k1_der_parse_integer(sig, rl.sigp, sigend)
                    IN IF i1.ret = 0 THEN [ret |-> 0, rr |-> rr0, rs |-> rs0]
                       ELSE LET i2 == secp256k1_der_parse_integer(sig, i1.sigp, sigend)
                            IN IF i2.ret = 0 THEN [ret |-> 0, rr |-> i1.r, rs |-> rs0]
                               ELSE IF i2.sigp # sigend
                                    THEN [ret |-> 0, rr |-> i1.r, rs |-> i2.r]
                               ELSE [ret |-> 1, rr |-> i1.r, rs |-> i2.r]

(***************************************************************************)
(* What parse touches: the offsets of sig it dereferences, the values its  *)
(* cursor takes, and the indices of ra that memcpy writes.  A byte outside *)
(* the buffer is not the program's: At gives the value junk for it.        *)
(***************************************************************************)
At(sig, p, junk) == IF p >= 0 /\ p < Len(sig) THEN sig[p + 1] ELSE junk
NoTrace == [reads |-> {}, cursors |-> {}, ra |-> {}]
TraceUnion(a, b) ==
    [reads |-> a.reads \cup b.reads, cursors |-> a.cursors \cup b.cursors,
     ra |-> a.ra \cup b.ra]

\* ReadLenTrace that reads the first length byte without testing lenleft
\* against the bytes left
ReadLenTrace_NoEndTest(sig, sigp, sigend, junk) ==
    IF sigp >= sigend THEN [reads |-> {}, cursors |-> {sigp}, ra |-> {}]
    ELSE LET b1 == At(sig, sigp, junk)
             p1 == sigp + 1
             lenleft == b1 - 128
         IN IF b1 = 255 \/ b1 <= 128
            THEN [reads |-> {sigp}, cursors |-> {p1}, ra |-> {}]
            ELSE IF At(sig, p1, junk) = 0 \/ lenleft > SizeofSizeT
            THEN [reads |-> {sigp, p1}, cursors |-> {p1}, ra |-> {}]
            ELSE [reads |-> {sigp} \cup (p1..(p1 + lenleft - 1)),
                  cursors |-> {p1, p1 + lenleft}, ra |-> {}]

\* secp256k1_der_read_len: b1 = *((*sigp)++); **sigp == 0; the loop over
\* lenleft bytes
ReadLenTrace(sig, sigp, sigend, junk) ==
    IF sigp >= sigend THEN [reads |-> {}, cursors |-> {sigp}, ra |-> {}]
    ELSE LET b1 == At(sig, sigp, junk)
             p1 == sigp + 1
             lenleft == b1 - 128
         IN IF b1 = 255 \/ b1 <= 128
            THEN [reads |-> {sigp}, cursors |-> {p1}, ra |-> {}]
            ELSE IF lenleft > sigend - p1
            THEN [reads |-> {sigp}, cursors |-> {p1}, ra |-> {}]
            ELSE IF At(sig, p1, junk) = 0 \/ lenleft > SizeofSizeT
            THEN [reads |-> {sigp, p1}, cursors |-> {p1}, ra |-> {}]
            ELSE [reads |-> {sigp} \cup (p1..(p1 + lenleft - 1)),
                  cursors |-> {p1, p1 + lenleft}, ra |-> {}]

\* secp256k1_der_parse_integer: **sig != 0x02; the padding tests on (*sig)[0]
\* and (*sig)[1]; memcpy(ra + 32 - rlen, *sig, rlen); (*sig) += rlen
IntegerTrace(sig, sigp, sigend, junk) ==
    IF sigp = sigend THEN [reads |-> {}, cursors |-> {sigp}, ra |-> {}]
    ELSE IF At(sig, sigp, junk) # 2 THEN [reads |-> {sigp}, cursors |-> {sigp}, ra |-> {}]
    ELSE LET rl == secp256k1_der_read_len(sig, sigp + 1, sigend)
             head == TraceUnion([reads |-> {sigp}, cursors |-> {sigp + 1}, ra |-> {}],
                                ReadLenTrace(sig, sigp + 1, sigend, junk))
             p == rl.sigp
             rlen == rl.len
         IN IF rl.ret = 0 \/ rlen = 0 \/ rlen > sigend - p THEN head
            ELSE LET b0 == At(sig, p, junk)
                     second == IF (b0 = 0 \/ b0 = 255) /\ rlen > 1 THEN {p + 1} ELSE {}
                     padded ==
                         \/ b0 = 0 /\ rlen > 1 /\ At(sig, p + 1, junk) < 128
                         \/ b0 = 255 /\ rlen > 1 /\ At(sig, p + 1, junk) >= 128
                     skip == rlen > 0 /\ b0 = 0
                     rlen2 == IF skip THEN rlen - 1 ELSE rlen
                     p2 == IF skip THEN p + 1 ELSE p
                     overflow == b0 >= 128 \/ rlen2 > ScalarBytes
                 IN IF padded
                    THEN TraceUnion(head, [reads |-> {p} \cup second, cursors |-> {}, ra |-> {}])
                    ELSE TraceUnion(head,
                           [reads |-> {p} \cup second
                                      \cup (IF overflow THEN {} ELSE p2..(p2 + rlen2 - 1)),
                            cursors |-> {p2, p2 + rlen2},
                            ra |-> IF overflow THEN {}
                                   ELSE (ScalarBytes - rlen2)..(ScalarBytes - 1)])

\* secp256k1_ecdsa_sig_parse: *(sig++) != 0x30, read_len, the two INTEGERs
ParseTrace(sig, size, junk) ==
    LET sigend == size
    IN IF 0 = sigend THEN [reads |-> {}, cursors |-> {0}, ra |-> {}]
       ELSE LET first == [reads |-> {0}, cursors |-> {0, 1}, ra |-> {}]
                rl == secp256k1_der_read_len(sig, 1, sigend)
                t1 == TraceUnion(first, ReadLenTrace(sig, 1, sigend, junk))
            IN IF At(sig, 0, junk) # 48 THEN first
               ELSE IF rl.ret = 0 \/ rl.len # sigend - rl.sigp THEN t1
               ELSE LET i1 == secp256k1_der_parse_integer(sig, rl.sigp, sigend)
                        t2 == TraceUnion(t1, IntegerTrace(sig, rl.sigp, sigend, junk))
                    IN IF i1.ret = 0 THEN t2
                       ELSE TraceUnion(t2, IntegerTrace(sig, i1.sigp, sigend, junk))

RECURSIVE SerializeStrip_AllZeros(_)
\* SerializeStrip that strips a leading zero whatever the next byte is
SerializeStrip_AllZeros(rp) ==
    IF Len(rp) > 1 /\ rp[1] = 0 THEN SerializeStrip_AllZeros(Tail(rp))
    ELSE rp

RECURSIVE SerializeStrip(_)
\* while (lenR > 1 && rp[0] == 0 && rp[1] < 0x80) { lenR--; rp++; }
SerializeStrip(rp) ==
    IF Len(rp) > 1 /\ rp[1] = 0 /\ rp[2] < 128 THEN SerializeStrip(Tail(rp))
    ELSE rp

\* The bytes written at sig[0..]: 30 <len> 02 <lenR> R 02 <lenS> S
SerializeBytes(rp, sp) ==
    <<48, (4 + Len(sp) + Len(rp)) % 256, 2, Len(rp)>> \o rp \o <<2, Len(sp)>> \o sp

\* secp256k1_ecdsa_sig_serialize that writes the header before it tests *size
secp256k1_ecdsa_sig_serialize_WriteFirst(sig, size, ar, as) ==
    LET rp == SerializeStrip(<<0>> \o secp256k1_scalar_get_b32(ar))
        sp == SerializeStrip(<<0>> \o secp256k1_scalar_get_b32(as))
        need == 6 + Len(sp) + Len(rp)
    IN IF size < need
       THEN [ret |-> 0, size |-> need,
             sig |-> [i \in 1..Len(sig) |->
                        IF i = 1 /\ size >= 1 THEN 48 ELSE sig[i]]]
       ELSE [ret |-> 1, size |-> need,
             sig |-> SerializeBytes(rp, sp) \o SubSeq(sig, need + 1, Len(sig))]

\* [ret, size, sig]: the return value, *size and the buffer after the call
secp256k1_ecdsa_sig_serialize(sig, size, ar, as) ==
    LET r == <<0>> \o secp256k1_scalar_get_b32(ar)
        s == <<0>> \o secp256k1_scalar_get_b32(as)
        rp == SerializeStrip(r)
        sp == SerializeStrip(s)
        lenR == Len(rp)
        lenS == Len(sp)
    IN IF size < 6 + lenS + lenR
       THEN [ret |-> 0, size |-> 6 + lenS + lenR, sig |-> sig]
       ELSE [ret |-> 1, size |-> 6 + lenS + lenR,
             sig |-> SerializeBytes(rp, sp)
                     \o SubSeq(sig, 6 + lenS + lenR + 1, Len(sig))]

(***************************************************************************)
(* Bounds of the model and the inputs drawn within them                    *)
(***************************************************************************)
MaxKey == 3
MaxMsg == 2
MaxNonce == 6
MaxSecret == 6
MaxDigest == 3
\* 358*G has the x coordinate 33218, in [N, P); 10965*G has the x coordinate N
SpecialNonces == {358, 10965}
Seckeys == (1..MaxKey) \cup {N - 1}
Messages == (0..MaxMsg) \cup {N - 1}
Nonces == (1..MaxNonce) \cup SpecialNonces \cup {N - 1}
\* secrets j as buffers, the last one holding a value >= N
Secrets == {BeBytes(v) : v \in (1..MaxSecret) \cup {N - 1, BufLimit - 1}}
Digests == {BeBytes(v) : v \in (0..MaxDigest) \cup {BufLimit - 1}}

\* Scalars whose bytes lie on the edges the codec distinguishes (zero, the sign
\* bit, all ones), within MaxEdge of them, and the scalars next to n/2 and n.
MaxEdge == 1
EdgeBytes == {b \in Byte : \E e \in {0, 127, 128, 255} : b - e \in (0 - MaxEdge)..MaxEdge}
ScalarSamples ==
    {v \in {hi * 256 + lo : hi \in EdgeBytes, lo \in EdgeBytes} : v < N}
        \cup {(N - 1) \div 2, (N + 1) \div 2, N - 1}
\* the buffer handed to serialize: large enough for any signature
SerializeBufLen == 6 + 2 * (ScalarBytes + 1)
\* what the buffer holds before serialize is called
Poison == [i \in 1..SerializeBufLen |-> 170]
\* values the output scalars of parse hold before the call
Sentinels == {5, 7}
\* values a byte outside the buffer may have
OutsideBytes == {0, 255}

\* Inputs of parse.  EncodeLen, DerInteger and DerSequence build the encoding
\* of a pair of INTEGER contents, whatever the contents are.
MaxContentLen == 4
ContentBytes == {0, 1, 127, 128, 255}
EncodeLen(n) == IF n < 128 THEN <<n>> ELSE <<129, n>>
DerInteger(c) == <<2>> \o EncodeLen(Len(c)) \o c
DerSequence(c1, c2) ==
    <<48>> \o EncodeLen(Len(DerInteger(c1)) + Len(DerInteger(c2)))
           \o DerInteger(c1) \o DerInteger(c2)
\* 1, n, n + 1, n - 1, a negative byte, a content one byte too long
PairedContents ==
    {<<1>>, <<0>> \o BeBytes(N), <<0>> \o BeBytes(N + 1), <<0>> \o BeBytes(N - 1),
     <<128>>, <<1>> \o BeBytes(0)}
Contents ==
    UNION {[1..l -> ContentBytes] : l \in 1..MaxContentLen} \cup PairedContents
\* a content of 128 bytes, which takes a long-form length
LongContent == [i \in 1..128 |-> IF i = 1 THEN 1 ELSE 0]
FieldPairs ==
    (Contents \X PairedContents) \cup (PairedContents \X Contents)
        \cup {<<LongContent, <<1>>>>, <<<<1>>, LongContent>>}
\* 30 06 02 01 00 02 01 01 and 30 07 02 02 00 01 02 01 01
ZeroVector == <<48, 6, 2, 1, 0, 2, 1, 1>>
PaddedVector == <<48, 7, 2, 2, 0, 1, 2, 1, 1>>
BaseInputs == {DerSequence(<<1>>, <<1>>), DerSequence(<<0, 128>>, <<127, 255>>), ZeroVector}
Prefixes(b) == {SubSeq(b, 1, l) : l \in 0..Len(b)}
ByteChanges(b) ==
    {[b EXCEPT ![i] = v] : i \in 1..Len(b), v \in {0, 2, 48, 128, 129, 255}}
\* a tuple that ends after the first INTEGER, bytes after the second INTEGER
\* inside and outside the tuple, a tuple longer than the input, lengths that
\* are not the shortest, of more than sizeof(size_t) bytes, or beyond any input
Malformed ==
    {<<48, 3, 2, 1, 1>>,
     <<48, 7, 2, 1, 1, 2, 1, 1, 0>>,
     <<48, 6, 2, 1, 1, 2, 1, 1, 0>>,
     <<48, 7, 2, 1, 1, 2, 1, 1>>,
     <<48, 129, 6, 2, 1, 1, 2, 1, 1>>,
     <<48, 6, 2, 129, 1, 1, 2, 1, 1>>,
     <<48, 130, 0, 6, 2, 1, 1, 2, 1, 1>>,
     <<48, 137, 1, 0, 0, 0, 0, 0, 0, 0, 0>>,
     <<48, 132, 127, 255, 255, 255, 0>>,
     <<48, 4, 2, 0, 2, 1, 1>>,
     <<48, 129>>,
     <<48, 130, 1>>,
     <<48, 3, 2, 129>>,
     <<48, 4, 2, 2, 0>>}
ParseInputs ==
    {DerSequence(f[1], f[2]) : f \in FieldPairs}
        \cup UNION {Prefixes(b) \cup ByteChanges(b) : b \in BaseInputs}
        \cup Malformed \cup {PaddedVector}

(***************************************************************************)
(* State                                                                   *)
(***************************************************************************)
VARIABLES
    pc,             \* the position of the caller
    seckey, message, nonce, pubkey,             \* inputs of sign and verify
    sigr, sigs, recid, sign_ret, sign_frame,    \* outputs and locals of sign
    tampered, verify_ret,
    j, dataHash,                                \* inputs of the stealth protocol
    stealthResult, stealth_J_frame,             \* generate_stealth_J
    stealthFactor, k, secure_k_frame,           \* generate_secure_k
    timestamp_ret,                              \* verify_timestamped_r
    ar, as,                                     \* the scalars to serialize
    sig, size, ser_ret,                         \* the buffer, *size, serialize's return
    sig0, size0,                                \* the buffer and *size before the first call
    rr, rs, parse_ret,                          \* parse's outputs and return
    rr0, rs0,                                   \* the output scalars before the call
    parse_trace                                 \* what the last parse touched

signVars == <<seckey, message, nonce, pubkey, sigr, sigs, recid, sign_ret,
              sign_frame, tampered, verify_ret>>
stealthVars == <<j, dataHash, stealthResult, stealth_J_frame, stealthFactor, k,
                 secure_k_frame, timestamp_ret>>
derVars == <<ar, as, sig, size, ser_ret, sig0, size0, rr, rs, parse_ret, rr0, rs0,
             parse_trace>>
vars == <<pc, signVars, stealthVars, derVars>>

NoBytes == [i \in 1..ScalarBytes |-> 0]
NoSignFrame == [b |-> NoBytes, rp |-> secp256k1_gej_clear, r |-> secp256k1_ge_clear,
                n |-> 0, overflow |-> 0, high |-> 0]
NoStealthJFrame == [rp |-> secp256k1_gej_clear, stealthPoint |-> secp256k1_ge_clear,
                    stealthResultScalar |-> 0, overflow |-> 0]
NoSecureKFrame == [rp |-> secp256k1_gej_clear, stealthPoint |-> secp256k1_ge_clear,
                   jScalar |-> 0, overflow |-> 0, hash |-> NoBytes,
                   hashResult |-> 0, secureK |-> 0]

\* nothing signed or verified yet
SignOutputsIdle ==
    /\ sigr = 0 /\ sigs = 0 /\ recid = 0 /\ sign_ret = 0
    /\ sign_frame = NoSignFrame
    /\ tampered = FALSE /\ verify_ret = 0
StealthIdle ==
    /\ j = NoBytes /\ dataHash = NoBytes
    /\ stealthResult = NoBytes /\ stealth_J_frame = NoStealthJFrame
    /\ stealthFactor = NoBytes /\ k = NoBytes /\ secure_k_frame = NoSecureKFrame
    /\ timestamp_ret = 0

DerIdle ==
    /\ ar = 0 /\ as = 0 /\ sig = <<>> /\ size = 0 /\ ser_ret = 0
    /\ sig0 = <<>> /\ size0 = 0
    /\ rr = 0 /\ rs = 0 /\ parse_ret = 0 /\ rr0 = 0 /\ rs0 = 0
    /\ parse_trace = NoTrace

(***************************************************************************)
(* Sign, then verify (possibly after the signature, the message or the     *)
(* key was changed)                                                        *)
(***************************************************************************)
InitSign ==
    /\ pc = "sign"
    /\ seckey \in Seckeys
    /\ message \in Messages
    /\ nonce \in Nonces
    /\ pubkey = secp256k1_ge_set_gej(secp256k1_ecmult_gen(seckey))
    /\ SignOutputsIdle
    /\ StealthIdle
    /\ DerIdle

Sign ==
    /\ pc = "sign"
    /\ \E res \in {secp256k1_ecdsa_sig_sign(seckey, message, nonce)} :
          /\ sigr' = res.sigr
          /\ sigs' = res.sigs
          /\ recid' = res.recid
          /\ sign_ret' = res.ret
          /\ sign_frame' = res.frame
    /\ pc' = "signed"
    /\ UNCHANGED <<seckey, message, nonce, pubkey, tampered, verify_ret, stealthVars, derVars>>

\* The changes a caller may make before verifying: <<sigr, sigs, message, pubkey>>.
Tamperings ==
    {<<0, sigs, message, pubkey>>,
     <<(sigr + 1) % N, sigs, message, pubkey>>,
     <<sigr, 0, message, pubkey>>,
     <<sigr, (N - sigs) % N, message, pubkey>>,
     <<sigr, (sigs + 1) % N, message, pubkey>>,
     <<sigr, sigs, (message + 1) % N, pubkey>>,
     <<sigr, sigs, (N - ((sigr * seckey) % N)) % N, pubkey>>,
     <<sigr, sigs, message, secp256k1_ge_set_gej(secp256k1_ecmult_gen(seckey + 1))>>}

Tamper ==
    /\ pc = "signed"
    /\ \E t \in Tamperings :
          /\ t # <<sigr, sigs, message, pubkey>>
          /\ sigr' = t[1] /\ sigs' = t[2] /\ message' = t[3] /\ pubkey' = t[4]
    /\ tampered' = TRUE
    /\ pc' = "tampered"
    /\ UNCHANGED <<seckey, nonce, recid, sign_ret, sign_frame, verify_ret, stealthVars,
                   derVars>>

Verify ==
    /\ pc \in {"signed", "tampered"}
    /\ verify_ret' = secp256k1_ecdsa_sig_verify(sigr, sigs, pubkey, message)
    /\ pc' = "verified"
    /\ UNCHANGED <<seckey, message, nonce, pubkey, sigr, sigs, recid, sign_ret,
                   sign_frame, tampered, stealthVars, derVars>>

NextSign == Sign \/ Tamper \/ Verify
SpecSign == InitSign /\ [][NextSign]_vars

(***************************************************************************)
(* Stealth nonce protocol: derive the public factor and the nonce from the *)
(* secret j and the data digest, sign with that nonce, check the           *)
(* commitment against the signature's r                                    *)
(***************************************************************************)
InitStealth ==
    /\ pc = "derive"
    /\ j \in Secrets
    /\ dataHash \in Digests
    /\ seckey \in Seckeys
    /\ message \in Messages
    /\ nonce = 0
    /\ pubkey = secp256k1_ge_set_gej(secp256k1_ecmult_gen(seckey))
    /\ SignOutputsIdle
    /\ stealthResult = NoBytes /\ stealth_J_frame = NoStealthJFrame
    /\ stealthFactor = NoBytes /\ k = NoBytes /\ secure_k_frame = NoSecureKFrame
    /\ timestamp_ret = 0
    /\ DerIdle

GenerateStealthJ ==
    /\ pc = "derive"
    /\ \E res \in {secp256k1_generate_stealth_J(j)} :
          /\ stealthResult' = res.stealthResult
          /\ stealth_J_frame' = res.frame
    /\ pc' = "factor"
    /\ UNCHANGED <<signVars, j, dataHash, stealthFactor, k, secure_k_frame,
                   timestamp_ret, derVars>>

\* The caller takes the nonce from the buffer k and signs only with a nonzero nonce.
GenerateSecureK ==
    /\ pc = "factor"
    /\ \E res \in {secp256k1_generate_secure_k(j, dataHash)} :
       LET nk == secp256k1_scalar_set_b32(res.k).r
       IN /\ stealthFactor' = res.stealthFactor
          /\ k' = res.k
          /\ secure_k_frame' = res.frame
          /\ nonce' = nk
          /\ pc' = IF nk = 0 THEN "rejected" ELSE "sign"
    /\ UNCHANGED <<seckey, message, pubkey, sigr, sigs, recid, sign_ret, sign_frame,
                   tampered, verify_ret, j, dataHash, stealthResult, stealth_J_frame,
                   timestamp_ret, derVars>>

VerifyTimestamped ==
    /\ pc = "signed"
    /\ timestamp_ret' = secp256k1_ecdsa_verify_timestamped_r(dataHash, stealthFactor, sigr)
    /\ pc' = "checked"
    /\ UNCHANGED <<signVars, j, dataHash, stealthResult, stealth_J_frame,
                   stealthFactor, k, secure_k_frame, derVars>>

NextStealth == GenerateStealthJ \/ GenerateSecureK \/ Sign \/ VerifyTimestamped
SpecStealth == InitStealth /\ [][NextStealth]_vars

(***************************************************************************)
(* Serialize a signature into a buffer of which size bytes may be used,    *)
(* again with the reported size when that was too small, then parse the    *)
(* bytes written                                                           *)
(***************************************************************************)
EcdsaIdle ==
    /\ seckey = 0 /\ message = 0 /\ nonce = 0 /\ pubkey = GeInfinity
    /\ SignOutputsIdle
    /\ StealthIdle

InitDer ==
    /\ pc = "serialize"
    /\ ar \in ScalarSamples
    /\ as \in ScalarSamples
    /\ sig = Poison
    /\ size \in 0..SerializeBufLen
    /\ sig0 = sig /\ size0 = size
    /\ ser_ret = 0
    /\ rr \in Sentinels /\ rs = rr /\ rr0 = rr /\ rs0 = rs
    /\ parse_ret = 0 /\ parse_trace = NoTrace
    /\ EcdsaIdle

Serialize ==
    /\ pc = "serialize"
    /\ \E res \in {secp256k1_ecdsa_sig_serialize(sig, size, ar, as)} :
          /\ sig' = res.sig
          /\ size' = res.size
          /\ ser_ret' = res.ret
          /\ pc' = IF res.ret = 1 THEN "serialized" ELSE "short"
    /\ UNCHANGED <<signVars, stealthVars, ar, as, sig0, size0, rr, rs, parse_ret,
                   rr0, rs0, parse_trace>>

\* the caller calls again, with the size the first call reported
SerializeRetry ==
    /\ pc = "short"
    /\ \E res \in {secp256k1_ecdsa_sig_serialize(sig, size, ar, as)} :
          /\ sig' = res.sig
          /\ size' = res.size
          /\ ser_ret' = res.ret
          /\ pc' = IF res.ret = 1 THEN "retried" ELSE "short_again"
    /\ UNCHANGED <<signVars, stealthVars, ar, as, sig0, size0, rr, rs, parse_ret,
                   rr0, rs0, parse_trace>>

\* parse reads the first size bytes of sig
Parse ==
    /\ pc \in {"serialized", "retried", "parse"}
    /\ \E res \in {secp256k1_ecdsa_sig_parse(rr, rs, sig, size)} :
          /\ rr' = res.rr
          /\ rs' = res.rs
          /\ parse_ret' = res.ret
    /\ \E junk \in OutsideBytes : parse_trace' = ParseTrace(sig, size, junk)
    /\ pc' = "parsed"
    /\ UNCHANGED <<signVars, stealthVars, ar, as, sig, size, ser_ret, sig0, size0,
                   rr0, rs0>>

NextDer == Serialize \/ SerializeRetry \/ Parse
SpecDer == InitDer /\ [][NextDer]_vars

(***************************************************************************)
(* Parse a byte string that came from elsewhere                            *)
(***************************************************************************)
InitParse ==
    /\ pc = "parse"
    /\ sig \in ParseInputs
    /\ size = Len(sig)
    /\ rr \in Sentinels /\ rs \in Sentinels /\ rr0 = rr /\ rs0 = rs
    /\ parse_ret = 0 /\ parse_trace = NoTrace
    /\ ar = 0 /\ as = 0 /\ ser_ret = 0 /\ sig0 = sig /\ size0 = size
    /\ EcdsaIdle

\* the caller writes the scalars parse gave into a fresh buffer of full size
Reserialize ==
    /\ pc = "parsed" /\ parse_ret = 1 /\ sig0 = sig
    /\ \E res \in {secp256k1_ecdsa_sig_serialize(Poison, SerializeBufLen, rr, rs)} :
          /\ sig' = res.sig
          /\ size' = res.size
          /\ ser_ret' = res.ret
    /\ ar' = rr /\ as' = rs
    /\ pc' = "reserialized"
    /\ UNCHANGED <<signVars, stealthVars, sig0, size0, rr, rs, parse_ret, rr0, rs0,
                   parse_trace>>

NextParse == Parse \/ Reserialize
SpecParse == InitParse /\ [][NextParse]_vars

(***************************************************************************)
(* Properties of the ECDSA core (under SpecSign)                           *)
(***************************************************************************)
\* C1: a signature that sign produced successfully from a nonzero key and a
\* nonzero nonce is accepted by verify under the public key seckey*G and the
\* same message.
SignVerifyConsistent ==
    (pc = "verified" /\ ~tampered /\ sign_ret = 1) => verify_ret = 1
\* a signature whose nonce point has its x coordinate in [N, P) was made and accepted
SignVerifyWitness ==
    /\ pc = "verified" /\ ~tampered
    /\ sign_ret = 1 /\ verify_ret = 1 /\ sign_frame.overflow = 1

\* C4: the s that sign leaves in its output is at most n/2.
LowS == (pc = "signed") => sigs <= (N - 1) \div 2
\* sign found s in the high half and negated it
LowSWitness == pc = "signed" /\ sign_frame.high = 1 /\ sign_ret = 1

\* The naive reference of verify: r and s nonzero, R' = (m/s)*G + (r/s)*Q not the
\* point at infinity, and the affine x coordinate of R' reduced mod n equal to r.
NaiveVerify(r, s, Q, m) ==
    /\ r # 0
    /\ s # 0
    /\ LET Rp == VerifyPoint(r, s, Q, m)
       IN /\ Rp.infinity # 1
          /\ secp256k1_ge_set_gej(Rp).x % N = r
\* C5: verify returns true exactly when the naive reference does.
VerifyEqualsNaive ==
    (pc = "verified") =>
        ((verify_ret = 1) <=> NaiveVerify(sigr, sigs, pubkey, message))
\* verify accepted a signature whose point R' has its x coordinate in [N, P)
VerifyFallbackWitness ==
    /\ pc = "verified" /\ verify_ret = 1
    /\ secp256k1_ge_set_gej(VerifyPoint(sigr, sigs, pubkey, message)).x >= N
    /\ sigr < secp256k1_ecdsa_const_p_minus_order

(***************************************************************************)
(* Properties of the stealth nonce protocol (under SpecStealth)            *)
(***************************************************************************)
\* C2: the r of a signature made with the nonce k of generate_secure_k(j, d)
\* passes verify_timestamped_r(d, factor, r).
CommitmentRoundTrip ==
    (pc = "checked" /\ sign_ret = 1) => timestamp_ret = 1

\* C10: when sign, generate_secure_k and generate_stealth_J have returned, their
\* locals that held secret or secret-dependent scalars and points are zero.
SignLocalsWiped ==
    /\ sign_frame.n = 0
    /\ sign_frame.rp = secp256k1_gej_clear
    /\ sign_frame.r = secp256k1_ge_clear
SecureKLocalsWiped ==
    /\ secure_k_frame.jScalar = 0
    /\ secure_k_frame.hashResult = 0
    /\ secure_k_frame.secureK = 0
    /\ secure_k_frame.rp = secp256k1_gej_clear
    /\ secure_k_frame.stealthPoint = secp256k1_ge_clear
StealthJLocalsWiped ==
    /\ stealth_J_frame.stealthResultScalar = 0
    /\ stealth_J_frame.rp = secp256k1_gej_clear
SecretsWiped ==
    /\ (pc \in {"signed", "checked"}) => SignLocalsWiped
    /\ (pc \in {"sign", "rejected", "signed", "checked"}) => SecureKLocalsWiped
    /\ (pc \in {"factor", "sign", "rejected", "signed", "checked"}) => StealthJLocalsWiped

(***************************************************************************)
(* Properties of the DER codec (under SpecDer)                             *)
(***************************************************************************)
\* C3: for r and s in (0, n) with s <= n/2, parsing what serialize wrote
\* succeeds and gives exactly (r, s).
DerRoundTrip ==
    (pc = "parsed" /\ ar \in 1..(N - 1) /\ as \in 1..((N - 1) \div 2)) =>
        (parse_ret = 1 /\ rr = ar /\ rs = as)
\* a round trip of an r whose top bit is set (a zero byte is prepended) and of an
\* s of one byte (the leading zeros are stripped)
DerRoundTripWitness ==
    /\ pc = "parsed" /\ parse_ret = 1
    /\ ar >= BufLimit \div 2 /\ as \in 1..127
    /\ rr = ar /\ rs = as /\ rr # rr0

\* The number of bytes of the shortest encoding of v as a non-negative INTEGER.
RECURSIVE IntegerLen(_)
IntegerLen(v) == IF v < 128 THEN 1 ELSE 1 + IntegerLen(v \div 256)
RequiredSize == 6 + IntegerLen(ar) + IntegerLen(as)
\* C9: with *size below the required 6 + lenR + lenS, serialize returns 0, sets
\* *size to the required size and leaves the buffer as it was; the call with the
\* reported size succeeds and writes exactly that many bytes.
CapacityShortfall ==
    /\ (pc = "serialized") => size0 >= RequiredSize
    /\ (pc = "short") =>
          (ser_ret = 0 /\ size0 < RequiredSize /\ size = RequiredSize /\ sig = sig0)
    /\ pc # "short_again"
    /\ (pc = "retried") =>
          /\ ser_ret = 1 /\ size = RequiredSize
          /\ \A i \in 1..Len(sig) : (i > size) => sig[i] = sig0[i]
          /\ \A i \in 1..size : sig[i] # sig0[i]
\* a first call with a size one byte short, then the call that succeeded
CapacityShortfallWitness ==
    /\ pc = "retried" /\ ser_ret = 1
    /\ size0 = size - 1 /\ size < SerializeBufLen

(***************************************************************************)
(* Properties of parse (under SpecParse)                                   *)
(***************************************************************************)
\* C6: parse accepts 30 06 02 01 00 02 01 01, giving r = 0 and s = 1 (a single
\* 0x00 is the shortest content of zero), and rejects 30 07 02 02 00 01 02 01 01,
\* whose first INTEGER has a leading zero without necessity.
ZeroVectorAccepted ==
    /\ (pc = "parsed" /\ sig = ZeroVector) => (parse_ret = 1 /\ rr = 0 /\ rs = 1)
    /\ (pc = "parsed" /\ sig = PaddedVector) => parse_ret = 0
ZeroVectorWitness ==
    pc = "parsed" /\ sig = ZeroVector /\ parse_ret = 1 /\ rr0 = 5 /\ rs0 = 7
\* C6 as stated: parse rejects 30 06 02 01 00 02 01 01.
ZeroVectorRejected ==
    (pc = "parsed" /\ sig = ZeroVector) => parse_ret = 0

\* C7: when parse returns 0, the output scalars r and s hold what they held
\* before the call.
NoPartialResult ==
    (pc = "parsed" /\ parse_ret = 0) => (rr = rr0 /\ rs = rs0)

\* The field whose tag is at index p of b, read by the rules of X.690 for a
\* definite length in the shortest form.
FieldAt(b, p) ==
    IF p + 1 > Len(b) THEN [ok |-> FALSE]
    ELSE IF b[p + 1] < 128
         THEN [ok |-> p + 1 + b[p + 1] <= Len(b), tag |-> b[p],
               from |-> p + 2, to |-> p + 1 + b[p + 1]]
    ELSE IF b[p + 1] = 129 /\ p + 2 <= Len(b) /\ b[p + 2] >= 128
         THEN [ok |-> p + 2 + b[p + 2] <= Len(b), tag |-> b[p],
               from |-> p + 3, to |-> p + 2 + b[p + 2]]
    ELSE [ok |-> FALSE]
\* a content of at least one byte without excessive 0x00 or 0xFF padding
ShortestContent(c) ==
    /\ Len(c) >= 1
    /\ ~(Len(c) > 1 /\ c[1] = 0 /\ c[2] < 128)
    /\ ~(Len(c) > 1 /\ c[1] = 255 /\ c[2] >= 128)
\* The contents of the two INTEGERs of a well-formed signature, <<>> for any
\* other byte string.
FieldsOf(b) ==
    LET seq == FieldAt(b, 1)
    IN IF ~(seq.ok /\ seq.tag = 48 /\ seq.to = Len(b)) THEN <<>>
       ELSE LET f1 == FieldAt(b, seq.from)
            IN IF ~(f1.ok /\ f1.tag = 2) THEN <<>>
               ELSE LET f2 == FieldAt(b, f1.to + 1)
                        c1 == SubSeq(b, f1.from, f1.to)
                        c2 == SubSeq(b, f2.from, f2.to)
                    IN IF f2.ok /\ f2.tag = 2 /\ f2.to = Len(b)
                          /\ ShortestContent(c1) /\ ShortestContent(c2)
                       THEN <<c1, c2>>
                       ELSE <<>>
Unpadded(c) == IF c[1] = 0 THEN Tail(c) ELSE c
\* negative, longer than a scalar after one leading zero is removed, or >= n
FieldOverflows(c) ==
    \/ c[1] >= 128
    \/ Len(Unpadded(c)) > ScalarBytes
    \/ BeValue(Unpadded(c)) >= N
FieldScalar(c) == IF FieldOverflows(c) THEN 0 ELSE BeValue(Unpadded(c))
\* C8: for a well-formed signature with an INTEGER that is negative, too long
\* or >= n, parse returns 1, the scalar of that INTEGER is 0, and the other
\* INTEGER is read from its own bytes.
OverflowCanonical ==
    (pc = "parsed" /\ FieldsOf(sig) # <<>>) =>
        LET c == FieldsOf(sig)
        IN (FieldOverflows(c[1]) \/ FieldOverflows(c[2])) =>
              /\ parse_ret = 1
              /\ rr = FieldScalar(c[1])
              /\ rs = FieldScalar(c[2])
\* the first INTEGER is n + 1 and gives 0, the second one is read after it
OverflowCanonicalWitness ==
    /\ pc = "parsed" /\ parse_ret = 1
    /\ sig = DerSequence(<<0>> \o BeBytes(N + 1), <<0>> \o BeBytes(N - 1))
    /\ rr = 0 /\ rs = N - 1 /\ rr0 # 0

\* an INTEGER of a well-formed b is negative, too long or >= n
InputOverflows(b) ==
    /\ FieldsOf(b) # <<>>
    /\ (FieldOverflows(FieldsOf(b)[1]) \/ FieldOverflows(FieldsOf(b)[2]))
\* C11: when parse accepts b with both INTEGERs non-negative and below n,
\* serialize of the scalars it gave, into a buffer large enough, writes
\* exactly the bytes of b and reports the length of b.
UniqueEncoding ==
    (pc = "reserialized" /\ ~InputOverflows(sig0)) =>
        /\ ser_ret = 1
        /\ size = size0
        /\ SubSeq(sig, 1, size) = sig0
\* an input whose first INTEGER needs its leading zero was parsed and written again
UniqueEncodingWitness ==
    /\ pc = "reserialized" /\ ser_ret = 1
    /\ sig0 = DerSequence(<<0, 128>>, <<1>>)
    /\ ar = 128 /\ as = 1
    /\ SubSeq(sig, 1, size) = sig0

\* C12: parse dereferences only offsets in [0, size), its cursor never passes
\* sigend, and memcpy writes only inside ra.
BoundedReads ==
    (pc = "parsed") =>
        /\ parse_trace.reads \subseteq 0..(size - 1)
        /\ parse_trace.cursors \subseteq 0..size
        /\ parse_trace.ra \subseteq 0..(ScalarBytes - 1)
\* an accepted input of which every byte was read, the cursor ending at sigend
\* and a copy filling ra
BoundedReadsWitness ==
    /\ pc = "parsed" /\ parse_ret = 1 /\ size > 8
    /\ parse_trace.reads = 0..(size - 1)
    /\ size \in parse_trace.cursors
    /\ parse_trace.ra = 0..(ScalarBytes - 1)

====
